---- MODULE Spec2Model ----
(***************************************************************************)
(* Incident data grid (js/app.js and its earlier revision): the record     *)
(* store, the selection store, the filter / sort / pagination stages and   *)
(* the event handlers that re-run the pipeline.                            *)
(*                                                                         *)
(* JavaScript strings are sequences of UTF-16 code units (integers), so    *)
(* that trim, toLowerCase, includes and the < comparison are computed.     *)
(* A JavaScript object is a function from its own keys to values; reading  *)
(* an absent key yields Undefined.                                         *)
(***************************************************************************)
EXTENDS Integers, Sequences, FiniteSets, TLC

\* ------------------------------------------------------------------------
\* Strings
\* ------------------------------------------------------------------------
Undefined == <<-1>>
Empty == <<>>

s_A == <<65>>
s_B == <<66>>
s_C == <<67>>
s_D == <<68>>
s_Z == <<90>>
s_10 == <<49, 48>>
s_20 == <<50, 48>>
s_Ann == <<65, 110, 110>>
s_bob == <<98, 111, 98>>
s_NO == <<78, 79>>
s_kB == <<107, 66>>
s_K2 == <<75, 50>>
s_k3 == <<107, 51>>
s_note == <<65, 32, 98>>

\* String.prototype.toLowerCase on the ASCII range
toLowerCase(s) ==
  [i \in 1..Len(s) |-> IF s[i] >= 65 /\ s[i] <= 90 THEN s[i] + 32 ELSE s[i]]

RECURSIVE trimStart(_)
trimStart(s) ==
  IF s # <<>> /\ Head(s) = 32 THEN trimStart(Tail(s)) ELSE s

RECURSIVE trimEnd(_)
trimEnd(s) ==
  IF s # <<>> /\ s[Len(s)] = 32 THEN trimEnd(SubSeq(s, 1, Len(s) - 1)) ELSE s

\* String.prototype.trim
trim(s) == trimEnd(trimStart(s))

\* String.prototype.includes
includes(s, sub) ==
  \E i \in 0..(Len(s) - Len(sub)) : SubSeq(s, i + 1, i + Len(sub)) = sub

\* the < operator on two strings: lexicographic by code unit
RECURSIVE StrLess(_, _)
StrLess(a, b) ==
  IF b = <<>> THEN FALSE
  ELSE IF a = <<>> THEN TRUE
  ELSE IF Head(a) # Head(b) THEN Head(a) < Head(b)
  ELSE StrLess(Tail(a), Tail(b))

\* obj[key]
Get(obj, key) == IF key \in DOMAIN obj THEN obj[key] ELSE Undefined

\* v || '' for a string-or-undefined v
OrEmpty(v) == IF v = Undefined \/ v = Empty THEN Empty ELSE v

\* { ...a, ...b }
Spread(a, b) ==
  [k \in (DOMAIN a) \cup (DOMAIN b) |-> IF k \in DOMAIN b THEN b[k] ELSE a[k]]

\* Array.prototype.filter
SeqFilter(s, Keep(_)) == SelectSeq(s, Keep)

Range(s) == {s[i] : i \in DOMAIN s}

\* ------------------------------------------------------------------------
\* Configuration
\* ------------------------------------------------------------------------
\* CONFIG.PAGINATION.ITEMS_PER_PAGE, scaled down so that a few records
\* already fill several pages
ITEMS_PER_PAGE == 2

\* currentSort.index = null; the data-col attributes of the table are 1..7
Null == -1

\* CONFIG.DEBOUNCE_DELAY, scaled down to ticks of the clock
DEBOUNCE_DELAY == 2

\* CONFIG.MIN_SEARCH_LENGTH
MIN_SEARCH_LENGTH == 2

\* ------------------------------------------------------------------------
\* Utils.debounce
\* ------------------------------------------------------------------------
\* executedFunction that leaves a pending timeout alone
debounce_call_KeepPending(timer, args) ==
  IF timer.pending THEN timer
  ELSE [pending |-> TRUE, args |-> args, remaining |-> DEBOUNCE_DELAY]

\* executedFunction(...args): clearTimeout(timeout);
\* timeout = setTimeout(later, wait), later closing over args
debounce_call(timer, args) ==
  [pending |-> TRUE, args |-> args, remaining |-> DEBOUNCE_DELAY]

\* ------------------------------------------------------------------------
\* User search
\* ------------------------------------------------------------------------
\* the logins the user-search endpoint knows
s_ann == <<97, 110, 110>>
s_bo == <<98, 111>>
s_bonn == <<98, 111, 110, 110>>
Directory == <<s_ann, s_bo, s_bonn>>

\* response.data of the endpoint for a login
UserSearch(login) == SelectSeq(Directory, LAMBDA user : includes(user, login))

\* the length test with the bound one lower
tooShort_OffByOne(query) == Len(query) < MIN_SEARCH_LENGTH - 1

\* query.length < CONFIG.MIN_SEARCH_LENGTH
tooShort(query) == Len(query) < MIN_SEARCH_LENGTH

\* ApiClient.searchUsers: whether it sends the request
ApiClient_searchUsers(login) == ~(login = Empty \/ tooShort(login))

\* the continuation of ModalManager.searchUsers that keeps the list of a
\* later request when an earlier one is answered
searchUsers_resume_DropStale(current, arrived, request, data) ==
  IF \E i \in DOMAIN arrived : arrived[i] > request.seq THEN current ELSE data

\* the continuation of ModalManager.searchUsers after the await:
\* suggestions = <what ApiClient.searchUsers resolved to>
searchUsers_resume(current, arrived, request, data) == data

\* ------------------------------------------------------------------------
\* Record source and transformServerData
\* ------------------------------------------------------------------------
rawA == [incident_record_id |-> s_A, pk |-> s_kB, executor_name |-> s_Ann,
         status |-> s_10]
rawB == [incident_record_id |-> s_B, pk |-> s_K2, owner |-> s_bob,
         status |-> s_20, comment |-> s_note]
rawC == [id |-> s_C, pk |-> s_k3, status |-> s_10, exception |-> s_NO]
rawD == [incident_record_id |-> s_D, pk |-> s_K2, executor_name |-> s_Ann,
         status |-> s_10]
rawA2 == [id |-> s_A, pk |-> s_k3, owner |-> s_bob, status |-> s_20]
rawNoId == [pk |-> s_K2, executor_name |-> s_Ann]

\* what the record source may answer
ServerResponses ==
  { <<>>,
    <<rawA, rawB, rawC>>,
    <<rawA, rawB, rawC, rawD>>,
    <<rawC, rawB, rawA>>,
    <<rawA, rawA2>>,
    <<rawNoId, rawB, rawNoId>> }

\* the values Date.now() + Math.random() may yield (numbers, not strings)
GeneratedIds == { <<-2, 1>>, <<-2, 2>> }

\* a || b
Or(a, b) == IF a = Undefined \/ a = Empty THEN b ELSE a

transformItem(item, generated) ==
  [ id |-> Or(Get(item, "incident_record_id"), Or(Get(item, "id"), generated)),
    pk |-> OrEmpty(Get(item, "pk")),
    owner |-> Or(Get(item, "executor_name"), OrEmpty(Get(item, "owner"))),
    status |-> OrEmpty(Get(item, "status")),
    masterIncident |-> OrEmpty(Get(item, "master_incident_id")),
    exception |-> OrEmpty(Get(item, "exception")),
    comment |-> OrEmpty(Get(item, "comment")),
    bd_table |-> OrEmpty(Get(item, "bd_table")),
    bd_table_attr |-> OrEmpty(Get(item, "bd_table_attr")),
    checked |-> FALSE ]

\* generated[i] is what Date.now() + Math.random() yields for item i
transformServerData(serverData, generated) ==
  [i \in 1..Len(serverData) |-> transformItem(serverData[i], generated[i])]

\* transformServerData of the earlier revision
transformItem0(item) ==
  [ id |-> OrEmpty(Get(item, "pk")),
    owner |-> OrEmpty(Get(item, "executor_name")),
    status |-> OrEmpty(Get(item, "status")),
    masterIncident |-> OrEmpty(Get(item, "master_incident_id")),
    exception |-> IF OrEmpty(Get(item, "status")) # Empty THEN Empty ELSE s_NO,
    comment |-> Empty,
    bd_table |-> Empty,
    bd_table_attr |-> Empty,
    checked |-> FALSE ]

transformServerData0(serverData) ==
  [i \in 1..Len(serverData) |-> transformItem0(serverData[i])]

\* String(id) as it is written to and read back from a row's data-id
DomId(id) == IF id \in GeneratedIds THEN <<-3, id[2]>> ELSE id

\* ------------------------------------------------------------------------
\* DataManager
\* ------------------------------------------------------------------------
\* incidents.findIndex(item => item.id === id); 0 stands for -1
findIndex(list, id) ==
  IF \E i \in DOMAIN list : list[i].id = id
  THEN CHOOSE i \in DOMAIN list :
         list[i].id = id /\ \A j \in 1..(i - 1) : list[j].id # id
  ELSE 0

\* DataManager.update with notify() moved out of the `if`
DataManager_update_AlwaysNotify(list, id, updates) ==
  LET index == findIndex(list, id) IN
  [list |-> IF index # 0
            THEN [list EXCEPT ![index] = Spread(list[index], updates)]
            ELSE list,
   notify |-> TRUE]

\* the list DataManager.update leaves, and whether it calls notify()
DataManager_update(list, id, updates) ==
  LET index == findIndex(list, id) IN
  IF index # 0
  THEN [list |-> [list EXCEPT ![index] = Spread(list[index], updates)],
        notify |-> TRUE]
  ELSE [list |-> list, notify |-> FALSE]

\* DataManager.bulkUpdate notifying only when some id matched
DataManager_bulkUpdate_NotifyOnMatch(list, ids, updates) ==
  [list |-> [i \in DOMAIN list |->
               IF list[i].id \in ids THEN Spread(list[i], updates) ELSE list[i]],
   notify |-> \E i \in DOMAIN list : list[i].id \in ids]

DataManager_bulkUpdate(list, ids, updates) ==
  [list |-> [i \in DOMAIN list |->
               IF list[i].id \in ids THEN Spread(list[i], updates) ELSE list[i]],
   notify |-> TRUE]

\* the slots in which update / bulkUpdate store a new object
DataManager_update_slots(list, id) == {findIndex(list, id)} \ {0}
DataManager_bulkUpdate_slots(list, ids) ==
  {i \in DOMAIN list : list[i].id \in ids}

\* callbacks whose body calls the unsubscribe function subscribe gave them
SelfUnsubscribing == {"once"}

\* the longest subscriber list a store is given
MaxSubscribers == 4

\* the most input events the owner box receives
MaxKeystrokes == 3

\* the unsubscribe function of DataManager.subscribe:
\* subscribers = subscribers.filter(sub => sub !== callback)
DataManager_unsubscribe(subs, callback) ==
  SelectSeq(subs, LAMBDA sub : sub # callback)

\* DataManager.notify: forEach walks the array it started on; a callback
\* that unsubscribes installs a new array and leaves that one as it was
DataManager_notify(subs) ==
  [invoked |-> subs,
   subs |-> SelectSeq(subs, LAMBDA sub : sub \notin SelfUnsubscribing)]

\* ------------------------------------------------------------------------
\* SelectionManager
\* ------------------------------------------------------------------------
\* subscribers.indexOf(callback); 0 stands for -1
indexOf(subs, callback) ==
  IF \E i \in DOMAIN subs : subs[i] = callback
  THEN CHOOSE i \in DOMAIN subs :
         subs[i] = callback /\ \A j \in 1..(i - 1) : subs[j] # callback
  ELSE 0

\* subscribers.splice(index, 1)
splice(subs, index) ==
  [i \in 1..(Len(subs) - 1) |-> IF i < index THEN subs[i] ELSE subs[i + 1]]

\* the unsubscribe function of SelectionManager.subscribe
SelectionManager_unsubscribe(subs, callback) ==
  LET index == indexOf(subs, callback) IN
  IF index > 0 THEN splice(subs, index) ELSE subs

\* forEach over the array the callbacks splice: index k is visited when it
\* is below the length forEach started with and still present
RECURSIVE forEach(_, _, _, _)
forEach(subs, k, len, done) ==
  IF k > len THEN [invoked |-> done, subs |-> subs]
  ELSE IF k > Len(subs) THEN forEach(subs, k + 1, len, done)
  ELSE forEach(IF subs[k] \in SelfUnsubscribing
               THEN SelectionManager_unsubscribe(subs, subs[k]) ELSE subs,
               k + 1, len, Append(done, subs[k]))

\* SelectionManager.notify
SelectionManager_notify(subs) == forEach(subs, 1, Len(subs), <<>>)

\* SelectionManager.getState()
getState(sel) == [selectedIds |-> sel, count |-> Cardinality(sel)]

\* SelectionManager.toggle without the delete branch
SelectionManager_toggle_AddOnly(sel, id) == sel \cup {id}

SelectionManager_toggle(sel, id) ==
  IF id \in sel THEN sel \ {id} ELSE sel \cup {id}

\* SelectionManager.setAll whose else-branch deletes only the given ids
SelectionManager_setAll_Symmetric(sel, ids, selected) ==
  IF selected THEN sel \cup ids ELSE sel \ ids

SelectionManager_setAll(sel, ids, selected) ==
  IF selected THEN sel \cup ids ELSE {}

\* ------------------------------------------------------------------------
\* SortingManager
\* ------------------------------------------------------------------------
columns == <<"pk", "owner", "exception", "status", "bd_table",
             "bd_table_attr", "comment">>

\* columns[columnIndex - 1]
ColumnKey(columnIndex) ==
  IF columnIndex \in 1..Len(columns) THEN columns[columnIndex] ELSE "undefined"

\* String(item[key] || '').toLowerCase()
CellLower(item, key) == toLowerCase(OrEmpty(Get(item, key)))

\* SortingManager.sort without the direction flip
SortingManager_next_NoFlip(cs, columnIndex) ==
  [index |-> columnIndex, asc |-> TRUE]

\* the direction update at the head of SortingManager.sort
SortingManager_next(cs, columnIndex) ==
  IF cs.index = columnIndex
  THEN [index |-> cs.index, asc |-> ~cs.asc]
  ELSE [index |-> columnIndex, asc |-> TRUE]

\* the comparator without the currentSort.asc tests
compare_AlwaysAscending(a, b, key, asc) ==
  IF StrLess(CellLower(a, key), CellLower(b, key)) THEN -1
  ELSE IF StrLess(CellLower(b, key), CellLower(a, key)) THEN 1
  ELSE 0

\* the comparator handed to Array.prototype.sort
compare(a, b, key, asc) ==
  LET aVal == CellLower(a, key)
      bVal == CellLower(b, key) IN
  IF StrLess(aVal, bVal) THEN (IF asc THEN -1 ELSE 1)
  ELSE IF StrLess(bVal, aVal) THEN (IF asc THEN 1 ELSE -1)
  ELSE 0

\* Array.prototype.sort is stable: x goes behind every element it does not
\* precede
RECURSIVE insertSorted(_, _, _, _)
insertSorted(sorted, x, key, asc) ==
  IF sorted = <<>> THEN <<x>>
  ELSE IF compare(x, Head(sorted), key, asc) < 0 THEN <<x>> \o sorted
  ELSE <<Head(sorted)>> \o insertSorted(Tail(sorted), x, key, asc)

RECURSIVE sortFrom(_, _, _, _)
sortFrom(sorted, rest, key, asc) ==
  IF rest = <<>> THEN sorted
  ELSE sortFrom(insertSorted(sorted, Head(rest), key, asc), Tail(rest), key, asc)

\* [...data].sort(comparator) under the direction `cs` already updated
sortedCopy(data, cs) == sortFrom(<<>>, data, ColumnKey(cs.index), cs.asc)

\* the earlier revision sorts by its own column list
columns0 == <<"id", "owner", "exception", "status", "bd_table",
              "bd_table_attr", "comment">>

ColumnKey0(columnIndex) ==
  IF columnIndex \in 1..Len(columns0) THEN columns0[columnIndex] ELSE "undefined"

SortingManager_sort0(cs, data, columnIndex) ==
  LET ns == SortingManager_next(cs, columnIndex) IN
  [state |-> ns, out |-> sortFrom(<<>>, data, ColumnKey0(ns.index), ns.asc)]

SortingManager_sort(cs, data, columnIndex) ==
  LET ns == SortingManager_next(cs, columnIndex) IN
  [state |-> ns, out |-> sortedCopy(data, ns)]

\* ------------------------------------------------------------------------
\* DropdownFilterManager and FilterManager
\* ------------------------------------------------------------------------
DropdownColumns == {2, 3, 4}
columnNames == [c \in DropdownColumns |->
                  IF c = 2 THEN "owner" ELSE IF c = 3 THEN "exception" ELSE "status"]

\* updateValueCache: the truthy owner / exception / status values of the data
valueCacheOf(data) ==
  [c \in DropdownColumns |->
     {Get(data[i], columnNames[c]) : i \in DOMAIN data} \ {Empty, Undefined}]

\* one pass of the [2, 3, 4].forEach loop of applyToData
applyColumn(df, data, c) ==
  LET Keep(item) == OrEmpty(Get(item, columnNames[c])) \in df[c] IN
  IF Cardinality(df[c]) > 0 THEN SeqFilter(data, Keep) ELSE data

\* applyToData filtering `data` afresh in every pass instead of filteredData
DropdownFilterManager_applyToData_LastWins(df, data) ==
  IF df[4] # {} THEN applyColumn(df, data, 4)
  ELSE IF df[3] # {} THEN applyColumn(df, data, 3)
  ELSE applyColumn(df, data, 2)

DropdownFilterManager_applyToData(df, data) ==
  applyColumn(df, applyColumn(df, applyColumn(df, data, 2), 3), 4)

FilterManager_set(tf, columnIndex, value) ==
  IF trim(value) # Empty
  THEN [c \in (DOMAIN tf) \cup {columnIndex} |->
          IF c = columnIndex THEN toLowerCase(trim(value)) ELSE tf[c]]
  ELSE [c \in (DOMAIN tf) \ {columnIndex} |-> tf[c]]

\* only the text columns 1 and 7 are applied
activeFilters(tf) == {c \in DOMAIN tf : c = 1 \/ c = 7}

\* the text match without lowercasing the cell
textMatches_CaseSensitive(item, c, tf) ==
  includes(OrEmpty(Get(item, ColumnKey(c))), tf[c])

textMatches(item, c, tf) == includes(CellLower(item, ColumnKey(c)), tf[c])

FilterManager_apply(tf, df, data) ==
  LET filteredData == DropdownFilterManager_applyToData(df, data)
      Keep(item) == \A c \in activeFilters(tf) : textMatches(item, c, tf) IN
  IF activeFilters(tf) = {} THEN filteredData ELSE SeqFilter(filteredData, Keep)

\* FilterManager.apply of the earlier revision: every stored entry is applied
FilterManager_apply0(tf, data) ==
  LET Keep(item) ==
        \A c \in DOMAIN tf : includes(CellLower(item, ColumnKey0(c)), tf[c]) IN
  IF DOMAIN tf = {} THEN data ELSE SeqFilter(data, Keep)

NoTextFilters == [c \in {} |-> Empty]
NoDropdownFilters == [c \in DropdownColumns |-> {}]

\* ------------------------------------------------------------------------
\* PaginationManager
\* ------------------------------------------------------------------------
Min(a, b) == IF a < b THEN a ELSE b
Max(a, b) == IF a > b THEN a ELSE b

\* Math.ceil(totalItems / itemsPerPage) || 1
getTotalPages(total) ==
  LET pages == (total + ITEMS_PER_PAGE - 1) \div ITEMS_PER_PAGE IN
  IF pages = 0 THEN 1 ELSE pages

\* setPage without the Math.max(1, ...)
setPage_NoFloor(page, total) == Min(page, getTotalPages(total))

setPage(page, total) == Max(1, Min(page, getTotalPages(total)))

\* getPaginationInfo without the totalItems > 0 tests
getPaginationInfo_NoEmptyCase(page, total) ==
  [currentPage |-> page,
   totalPages |-> getTotalPages(total),
   totalItems |-> total,
   startItem |-> (page - 1) * ITEMS_PER_PAGE + 1,
   endItem |-> Min(page * ITEMS_PER_PAGE, total),
   hasPrev |-> page > 1,
   hasNext |-> page < getTotalPages(total)]

getPaginationInfo(page, total) ==
  LET totalPages == getTotalPages(total)
      startItem == (page - 1) * ITEMS_PER_PAGE + 1
      endItem == Min(page * ITEMS_PER_PAGE, total) IN
  [currentPage |-> page,
   totalPages |-> totalPages,
   totalItems |-> total,
   startItem |-> IF total > 0 THEN startItem ELSE 0,
   endItem |-> IF total > 0 THEN endItem ELSE 0,
   hasPrev |-> page > 1,
   hasNext |-> page < totalPages]

\* the slice that always starts at the head of the list
getPageData_FirstWindow(data, page) ==
  SubSeq(data, 1, Min(ITEMS_PER_PAGE, Len(data)))

\* data.slice(start, end)
getPageData(data, page) ==
  LET start == (page - 1) * ITEMS_PER_PAGE
      end == Min(start + ITEMS_PER_PAGE, Len(data)) IN
  IF start >= Len(data) THEN <<>> ELSE SubSeq(data, start + 1, end)

\* ------------------------------------------------------------------------
\* State
\* ------------------------------------------------------------------------
VARIABLES
  phase,            \* "loading" until App.init has loaded the records
  incidents,        \* DataManager: the list
  subscribers,      \* DataManager: the callbacks, in subscription order
  selectedIds,      \* SelectionManager: the set
  currentSort,      \* SortingManager: [index, asc]
  textFilters,      \* FilterManager: column -> lowercase substring
  dropdownFilters,  \* DropdownFilterManager.filters: column -> set of values
  valueCache,       \* DropdownFilterManager.valueCache
  currentPage,      \* PaginationManager
  totalItems,       \* PaginationManager
  rendered,         \* the rows last handed to UIComponents.renderTable
  currentIncident,  \* ModalManager: the record being edited, or NoIncident
  lastOp,           \* the handler or call that ran last, with its arguments
  notified,         \* callbacks invoked by DataManager.notify in that step
  selSubscribers,   \* SelectionManager: the callbacks, in subscription order
  invoked,          \* the callbacks run in that step, each with its argument
  returned,         \* the value the last direct call returned
  held,             \* a list DataManager.getAll() returned and a caller keeps
  timers,           \* Utils.debounce: the timeout of each debounced function
  bursts,           \* per debounced function: calls and runs of the burst
  typed,            \* the values of the input events on the owner box
  inflight,         \* user-search requests awaiting their response
  issued,           \* the queries of the requests sent, in order
  answered,         \* the requests whose response arrived, in arrival order
  suggestions,      \* ModalManager: the suggestion list
  errors,           \* App.showError: the messages put on the page
  loads,            \* the calls of ApiClient.loadIncidents so far
  inputValues       \* the value of each text filter input (.col-filter)

storeVars == <<incidents, subscribers>>
filterVars == <<textFilters, dropdownFilters>>
pageVars == <<currentPage, totalItems>>
callVars == <<returned, held>>
timerVars == <<timers, bursts>>
searchVars == <<typed, inflight, issued, answered, suggestions>>
domVars == <<errors, loads, inputValues>>
vars == <<phase, incidents, subscribers, selectedIds, currentSort, textFilters,
          dropdownFilters, valueCache, currentPage, totalItems, rendered,
          currentIncident, lastOp, notified, selSubscribers, invoked,
          returned, held, timers, bursts, typed, inflight, issued, answered,
          suggestions, errors, loads, inputValues>>

NoIncident == [id |-> Undefined]
NoArgs == [col |-> Null, id |-> Undefined, ids |-> {}, patch |-> NoTextFilters,
           flag |-> FALSE, cb |-> ""]
Op(name, args) == [name |-> name] @@ args

\* no list taken from getAll(): alias[i] is the index of the store's slot
\* that holds the very object items[i], or 0 when no slot holds it
NoList == [taken |-> FALSE, items |-> <<>>, alias |-> <<>>]

\* the columns with a text filter input
TextColumns == {1, 7}

\* the debounced functions of the program
Debounced == {"handleFilterInput", "searchUsers"}
\* let timeout; (no timer set)
NoTimer == [pending |-> FALSE, args |-> Empty, remaining |-> 0]
NoBurst == [calls |-> <<>>, ran |-> <<>>, since |-> 0]

\* a handler that calls no subscriber and touches none of the above
Quiet ==
  /\ invoked' = <<>>
  /\ UNCHANGED <<selSubscribers, callVars, timerVars, searchVars, domVars>>

Init ==
  /\ phase = "loading"
  /\ incidents = <<>>
  /\ subscribers = <<>>
  /\ selectedIds = {}
  /\ currentSort = [index |-> Null, asc |-> TRUE]
  /\ textFilters = NoTextFilters
  /\ dropdownFilters = NoDropdownFilters
  /\ valueCache = [c \in DropdownColumns |-> {}]
  /\ currentPage = 1
  /\ totalItems = 0
  /\ rendered = <<>>
  /\ currentIncident = NoIncident
  /\ lastOp = Op("construct", NoArgs)
  /\ notified = 0
  /\ selSubscribers = <<>>
  /\ invoked = <<>>
  /\ returned = Undefined
  /\ held = NoList
  /\ timers = [d \in Debounced |-> NoTimer]
  /\ bursts = [d \in Debounced |-> NoBurst]
  /\ typed = <<>>
  /\ inflight = {}
  /\ issued = <<>>
  /\ answered = <<>>
  /\ suggestions = <<>>
  /\ errors = <<>>
  /\ loads = 0
  /\ inputValues = [c \in TextColumns |-> Empty]

\* ------------------------------------------------------------------------
\* The pipeline as the handlers run it
\* ------------------------------------------------------------------------
\* the pipeline sorting DataManager.getAll() unfiltered
Pipeline_Unfiltered(list, tf, df, cs, columnIndex) ==
  SortingManager_sort(cs, list, columnIndex)

\* FilterManager.apply, then SortingManager.sort with the given column
Pipeline(list, tf, df, cs, columnIndex) ==
  SortingManager_sort(cs, FilterManager_apply(tf, df, list), columnIndex)

\* PaginationManager.init(sorted.length); getPageData(sorted); renderTable
RenderFirstPage(sorted) ==
  /\ totalItems' = Len(sorted)
  /\ currentPage' = 1
  /\ rendered' = getPageData(sorted, 1)

\* EventHandlers.applyFiltersAndUpdate, and the body of handleFilterInput
\* after FilterManager.set
applyFiltersAndUpdate(list, tf, df) ==
  LET r == Pipeline(list, tf, df, currentSort, currentSort.index) IN
  /\ currentSort' = r.state
  /\ RenderFirstPage(r.out)

\* DataManager.notify(): every subscriber in order with the list.
\* updateValueCache refreshes the cache; the App subscriber re-runs the
\* pipeline.
notify(list) ==
  /\ LET run == DataManager_notify(subscribers) IN
     /\ subscribers' = run.subs
     /\ invoked' = [i \in DOMAIN run.invoked |->
                     [cb |-> run.invoked[i], arg |-> list]]
  /\ notified' = Len(subscribers)
  /\ valueCache' = IF "updateValueCache" \in Range(subscribers)
                   THEN valueCacheOf(list) ELSE valueCache
  /\ IF "onDataChanged" \in Range(subscribers)
     THEN applyFiltersAndUpdate(list, textFilters, dropdownFilters)
     ELSE UNCHANGED <<currentSort, currentPage, totalItems, rendered>>

\* SelectionManager.notify(): every subscriber with getState()
selNotify(sel) ==
  LET run == SelectionManager_notify(selSubscribers) IN
  /\ selSubscribers' = run.subs
  /\ invoked' = [i \in DOMAIN run.invoked |->
                  [cb |-> run.invoked[i], arg |-> getState(sel)]]

\* the store replaced the objects in the given slots (all of them when it
\* installed a new list): a list a caller holds no longer shares them
Unshare(slots) ==
  held' = [held EXCEPT !.alias =
             [i \in DOMAIN @ |-> IF @[i] \in slots THEN 0 ELSE @[i]]]

\* ------------------------------------------------------------------------
\* App.init
\* ------------------------------------------------------------------------
AppInit(serverData, generated) ==
  /\ phase = "loading"
  /\ LET data == transformServerData(serverData, generated) IN
     /\ incidents' = data
     /\ notified' = Len(subscribers)
     /\ valueCache' = valueCacheOf(data)
     /\ RenderFirstPage(data)
  /\ subscribers' = <<"updateValueCache", "onDataChanged">>
  /\ selSubscribers' = <<"onSelectionChanged">>
  /\ invoked' = <<>>
  /\ phase' = "ready"
  /\ lastOp' = Op("init", NoArgs)
  /\ loads' = loads + 1
  /\ UNCHANGED <<selectedIds, currentSort, filterVars, currentIncident,
                 callVars, timerVars, searchVars, errors, inputValues>>

\* the ways ApiClient.loadIncidents throws: fetch rejects, or the response
\* is not ok
LoadFailures == {"unreachable", "notOk"}

\* the text App.init hands to showError ('Не удалось загрузить данные')
LoadErrorMessage == "load-error"

\* showError that puts nothing on the page
showError_Silent(errs, message) == errs

\* App.showError: an alert div with the message, first in the container
showError(errs, message) == Append(errs, message)

\* App.init when loadIncidents throws: the catch block shows the error; the
\* statements after the await (setData, the subscriptions, the listeners)
\* are skipped
AppInitFails(failure) ==
  /\ phase = "loading"
  /\ loads' = loads + 1
  /\ errors' = showError(errors, LoadErrorMessage)
  /\ phase' = "failed"
  /\ lastOp' = Op("initFailed", [NoArgs EXCEPT !.cb = failure])
  /\ notified' = 0
  /\ invoked' = <<>>
  /\ UNCHANGED <<storeVars, selectedIds, currentSort, filterVars, valueCache,
                 pageVars, rendered, currentIncident, selSubscribers,
                 callVars, timerVars, searchVars, inputValues>>

\* ------------------------------------------------------------------------
\* Event handlers
\* ------------------------------------------------------------------------
SortableColumns == {1, 4}

handleHeaderClick(colIndex) ==
  /\ phase = "ready"
  /\ LET r == Pipeline(incidents, textFilters, dropdownFilters, currentSort,
                       colIndex) IN
     /\ currentSort' = r.state
     /\ RenderFirstPage(r.out)
  /\ lastOp' = Op("headerClick", [NoArgs EXCEPT !.col = colIndex])
  /\ notified' = 0
  /\ UNCHANGED <<phase, storeVars, selectedIds, filterVars, valueCache,
                 currentIncident>>
  /\ Quiet

handleFilterInput(colIndex, value) ==
  /\ phase = "ready"
  /\ textFilters' = FilterManager_set(textFilters, colIndex, value)
  /\ applyFiltersAndUpdate(incidents, textFilters', dropdownFilters)
  /\ lastOp' = Op("filterInput", [NoArgs EXCEPT !.col = colIndex, !.id = value])
  /\ notified' = 0
  /\ UNCHANGED <<phase, storeVars, selectedIds, dropdownFilters, valueCache,
                 currentIncident>>
  /\ Quiet

\* the checkbox change handler of renderDropdown, then the filterchange event
dropdownCheckboxChange(colIndex, value) ==
  /\ phase = "ready"
  /\ value \in valueCache[colIndex]
  /\ dropdownFilters' =
       [dropdownFilters EXCEPT ![colIndex] =
          IF value \in @ THEN @ \ {value} ELSE @ \cup {value}]
  /\ applyFiltersAndUpdate(incidents, textFilters, dropdownFilters')
  /\ lastOp' = Op("dropdownChange", [NoArgs EXCEPT !.col = colIndex, !.id = value])
  /\ notified' = 0
  /\ UNCHANGED <<phase, storeVars, selectedIds, textFilters, valueCache,
                 currentIncident>>
  /\ Quiet

selectAll(colIndex) ==
  /\ phase = "ready"
  /\ dropdownFilters' = [dropdownFilters EXCEPT ![colIndex] = valueCache[colIndex]]
  /\ applyFiltersAndUpdate(incidents, textFilters, dropdownFilters')
  /\ lastOp' = Op("dropdownSelectAll", [NoArgs EXCEPT !.col = colIndex])
  /\ notified' = 0
  /\ UNCHANGED <<phase, storeVars, selectedIds, textFilters, valueCache,
                 currentIncident>>
  /\ Quiet

clearSelection(colIndex) ==
  /\ phase = "ready"
  /\ dropdownFilters' = [dropdownFilters EXCEPT ![colIndex] = {}]
  /\ applyFiltersAndUpdate(incidents, textFilters, dropdownFilters')
  /\ lastOp' = Op("dropdownClear", [NoArgs EXCEPT !.col = colIndex])
  /\ notified' = 0
  /\ UNCHANGED <<phase, storeVars, selectedIds, textFilters, valueCache,
                 currentIncident>>
  /\ Quiet

\* the btnClearAllFilters listener: FilterManager.clear() dispatches
\* filterchange (one pipeline run), then applyFiltersAndUpdate runs again
clearAllFiltersClick ==
  /\ phase = "ready"
  /\ textFilters' = NoTextFilters
  /\ dropdownFilters' = NoDropdownFilters
  /\ LET first == Pipeline(incidents, textFilters', dropdownFilters',
                           currentSort, currentSort.index)
         second == Pipeline(incidents, textFilters', dropdownFilters',
                            first.state, first.state.index) IN
     /\ currentSort' = second.state
     /\ RenderFirstPage(second.out)
  /\ inputValues' = [c \in TextColumns |-> Empty]
  /\ lastOp' = Op("clearAllFilters", NoArgs)
  /\ notified' = 0
  /\ invoked' = <<>>
  /\ UNCHANGED <<phase, storeVars, selectedIds, valueCache, currentIncident,
                 selSubscribers, callVars, timerVars, searchVars, errors,
                 loads>>

\* the buttons renderPagination draws: none when there is one page, prev and
\* next disabled at the ends
PageButtons ==
  IF getTotalPages(totalItems) <= 1 THEN {}
  ELSE (IF currentPage > 1 THEN {"prev"} ELSE {})
       \cup (IF currentPage < getTotalPages(totalItems) THEN {"next"} ELSE {})
       \cup {"number"}

handlePaginationClick(btn, page) ==
  /\ phase = "ready"
  /\ btn \in PageButtons
  /\ page \in 1..getTotalPages(totalItems)
  /\ currentPage' = IF btn = "prev" THEN setPage(currentPage - 1, totalItems)
                    ELSE IF btn = "next" THEN setPage(currentPage + 1, totalItems)
                    ELSE setPage(page, totalItems)
  /\ LET r == Pipeline(incidents, textFilters, dropdownFilters, currentSort,
                       currentSort.index) IN
     /\ currentSort' = r.state
     /\ rendered' = getPageData(r.out, currentPage')
  /\ lastOp' = Op("paginationClick", [NoArgs EXCEPT !.col = page])
  /\ notified' = 0
  /\ UNCHANGED <<phase, storeVars, selectedIds, filterVars, valueCache,
                 totalItems, currentIncident>>
  /\ Quiet

\* ------------------------------------------------------------------------
\* Selection handlers
\* ------------------------------------------------------------------------
\* the data-id attributes of the rows on screen
RenderedIds == {DomId(rendered[i].id) : i \in DOMAIN rendered}

handleCheckboxChange(id) ==
  /\ phase = "ready"
  /\ id \in RenderedIds
  /\ selectedIds' = SelectionManager_toggle(selectedIds, id)
  /\ lastOp' = Op("toggle", [NoArgs EXCEPT !.id = id])
  /\ notified' = 0
  /\ UNCHANGED <<phase, storeVars, currentSort, filterVars, valueCache,
                 pageVars, rendered, currentIncident>>
  /\ selNotify(selectedIds')
  /\ UNCHANGED <<callVars, timerVars, searchVars, domVars>>

handleSelectAll(checked) ==
  /\ phase = "ready"
  /\ LET ids == {incidents[i].id : i \in DOMAIN incidents} IN
     /\ selectedIds' = SelectionManager_setAll(selectedIds, ids, checked)
     /\ lastOp' = Op("setAll", [NoArgs EXCEPT !.ids = ids, !.flag = checked])
  /\ notified' = 0
  /\ UNCHANGED <<phase, storeVars, currentSort, filterVars, valueCache,
                 pageVars, rendered, currentIncident>>
  /\ selNotify(selectedIds')
  /\ UNCHANGED <<callVars, timerVars, searchVars, domVars>>

clearSelectionClick ==
  /\ phase = "ready"
  /\ selectedIds' = {}
  /\ lastOp' = Op("clear", NoArgs)
  /\ notified' = 0
  /\ UNCHANGED <<phase, storeVars, currentSort, filterVars, valueCache,
                 pageVars, rendered, currentIncident>>
  /\ selNotify(selectedIds')
  /\ UNCHANGED <<callVars, timerVars, searchVars, domVars>>

\* ------------------------------------------------------------------------
\* ModalManager
\* ------------------------------------------------------------------------
\* handleEditClick: DataManager.getAll().find(item => item.id === id), then
\* ModalManager.open
handleEditClick(id) ==
  /\ phase = "ready"
  /\ id \in RenderedIds
  /\ findIndex(incidents, id) # 0
  /\ currentIncident' = incidents[findIndex(incidents, id)]
  /\ lastOp' = Op("editClick", [NoArgs EXCEPT !.id = id])
  /\ notified' = 0
  /\ UNCHANGED <<phase, storeVars, selectedIds, currentSort, filterVars,
                 valueCache, pageVars, rendered>>
  /\ Quiet

\* a DataManager mutation followed by notify() when the code calls it
Mutated(result, slots) ==
  /\ incidents' = result.list
  /\ Unshare(slots)
  /\ IF result.notify
     THEN notify(result.list)
     ELSE /\ notified' = 0
          /\ invoked' = <<>>
          /\ UNCHANGED <<subscribers, valueCache, currentSort, pageVars,
                         rendered>>

\* the form fields ModalManager.save reads
FormPatch(owner, exception, status, comment) ==
  [owner |-> owner, table |-> Empty, attribute |-> Empty,
   exception |-> exception, status |-> status, comment |-> comment]

\* save that always updates the record the modal was opened for
save_CurrentOnly(updates) ==
  /\ phase = "ready"
  /\ currentIncident # NoIncident
  /\ Mutated(DataManager_update(incidents, currentIncident.id, updates),
             DataManager_update_slots(incidents, currentIncident.id))
  /\ currentIncident' = NoIncident
  /\ suggestions' = <<>>
  /\ lastOp' = Op("save", [NoArgs EXCEPT !.patch = updates,
                                         !.id = currentIncident.id])
  /\ UNCHANGED <<phase, selectedIds, filterVars, selSubscribers, returned,
                 timerVars, typed, inflight, issued, answered, domVars>>

save(updates) ==
  /\ phase = "ready"
  /\ currentIncident # NoIncident
  /\ IF Cardinality(selectedIds) > 0
     THEN Mutated(DataManager_bulkUpdate(incidents, selectedIds, updates),
                  DataManager_bulkUpdate_slots(incidents, selectedIds))
     ELSE Mutated(DataManager_update(incidents, currentIncident.id, updates),
                  DataManager_update_slots(incidents, currentIncident.id))
  /\ currentIncident' = NoIncident
  /\ suggestions' = <<>>
  /\ lastOp' = Op("save", [NoArgs EXCEPT !.patch = updates,
                                         !.id = currentIncident.id])
  /\ UNCHANGED <<phase, selectedIds, filterVars, selSubscribers, returned,
                 timerVars, typed, inflight, issued, answered, domVars>>

\* close that leaves the suggestion list as it is
close_KeepSuggestions ==
  /\ phase = "ready"
  /\ currentIncident # NoIncident
  /\ currentIncident' = NoIncident
  /\ lastOp' = Op("close", NoArgs)
  /\ notified' = 0
  /\ invoked' = <<>>
  /\ UNCHANGED <<phase, storeVars, selectedIds, currentSort, filterVars,
                 valueCache, pageVars, rendered, selSubscribers, callVars,
                 timerVars, searchVars, domVars>>

close ==
  /\ phase = "ready"
  /\ currentIncident # NoIncident
  /\ currentIncident' = NoIncident
  /\ lastOp' = Op("close", NoArgs)
  /\ notified' = 0
  /\ UNCHANGED <<phase, storeVars, selectedIds, currentSort, filterVars,
                 valueCache, pageVars, rendered>>
  /\ invoked' = <<>>
  /\ suggestions' = <<>>
  /\ UNCHANGED <<selSubscribers, callVars, timerVars, typed, inflight, issued,
                 answered, domVars>>

\* ------------------------------------------------------------------------
\* Direct calls of the stores' functions
\* ------------------------------------------------------------------------
update(id, updates) ==
  /\ phase = "ready"
  /\ Mutated(DataManager_update(incidents, id, updates),
             DataManager_update_slots(incidents, id))
  /\ returned' = Undefined
  /\ lastOp' = Op("update", [NoArgs EXCEPT !.id = id, !.patch = updates])
  /\ UNCHANGED <<phase, selectedIds, filterVars, currentIncident,
                 selSubscribers, timerVars, searchVars, domVars>>

bulkUpdate(ids, updates) ==
  /\ phase = "ready"
  /\ Mutated(DataManager_bulkUpdate(incidents, ids, updates),
             DataManager_bulkUpdate_slots(incidents, ids))
  /\ returned' = Undefined
  /\ lastOp' = Op("bulkUpdate", [NoArgs EXCEPT !.ids = ids, !.patch = updates])
  /\ UNCHANGED <<phase, selectedIds, filterVars, currentIncident,
                 selSubscribers, timerVars, searchVars, domVars>>

toggle(id) ==
  /\ phase = "ready"
  /\ selectedIds' = SelectionManager_toggle(selectedIds, id)
  /\ lastOp' = Op("toggle", [NoArgs EXCEPT !.id = id])
  /\ notified' = 0
  /\ UNCHANGED <<phase, storeVars, currentSort, filterVars, valueCache,
                 pageVars, rendered, currentIncident>>
  /\ selNotify(selectedIds')
  /\ returned' = getState(selectedIds')
  /\ UNCHANGED <<held, timerVars, searchVars, domVars>>

setAll(ids, selected) ==
  /\ phase = "ready"
  /\ selectedIds' = SelectionManager_setAll(selectedIds, ids, selected)
  /\ lastOp' = Op("setAll", [NoArgs EXCEPT !.ids = ids, !.flag = selected])
  /\ notified' = 0
  /\ UNCHANGED <<phase, storeVars, currentSort, filterVars, valueCache,
                 pageVars, rendered, currentIncident>>
  /\ selNotify(selectedIds')
  /\ returned' = getState(selectedIds')
  /\ UNCHANGED <<held, timerVars, searchVars, domVars>>

\* DataManager.setData called directly
setData(newData) ==
  /\ phase = "ready"
  /\ incidents' = newData
  /\ Unshare(DOMAIN incidents)
  /\ notify(newData)
  /\ returned' = Undefined
  /\ lastOp' = Op("setData", NoArgs)
  /\ UNCHANGED <<phase, selectedIds, filterVars, currentIncident,
                 selSubscribers, timerVars, searchVars, domVars>>

\* DataManager.getAll(): [...incidents], a new array of the same objects
getAll ==
  /\ phase = "ready"
  /\ held' = [taken |-> TRUE, items |-> incidents,
              alias |-> [i \in DOMAIN incidents |-> i]]
  /\ returned' = incidents
  /\ lastOp' = Op("getAll", NoArgs)
  /\ notified' = 0
  /\ invoked' = <<>>
  /\ UNCHANGED <<phase, storeVars, selectedIds, currentSort, filterVars,
                 valueCache, pageVars, rendered, currentIncident,
                 selSubscribers, timerVars, searchVars, domVars>>

\* the caller changes the array it was given: list.pop()
callerPop ==
  /\ held.taken
  /\ Len(held.items) > 0
  /\ held' = [held EXCEPT !.items = SubSeq(@, 1, Len(@) - 1),
                          !.alias = SubSeq(@, 1, Len(@) - 1)]
  /\ lastOp' = Op("callerPop", NoArgs)
  /\ notified' = 0
  /\ invoked' = <<>>
  /\ UNCHANGED <<phase, storeVars, selectedIds, currentSort, filterVars,
                 valueCache, pageVars, rendered, currentIncident,
                 selSubscribers, returned, timerVars, searchVars, domVars>>

\* the caller changes a record of that array: Object.assign(list[i], updates)
\* writes the object itself, which a slot of the store may still hold
callerAssign(i, updates) ==
  /\ held.taken
  /\ i \in DOMAIN held.items
  /\ held' = [held EXCEPT !.items[i] = Spread(@, updates)]
  /\ incidents' = IF held.alias[i] # 0
                  THEN [incidents EXCEPT ![held.alias[i]] = Spread(@, updates)]
                  ELSE incidents
  /\ lastOp' = Op("callerAssign", [NoArgs EXCEPT !.col = i, !.patch = updates])
  /\ notified' = 0
  /\ invoked' = <<>>
  /\ UNCHANGED <<phase, subscribers, selectedIds, currentSort, filterVars,
                 valueCache, pageVars, rendered, currentIncident,
                 selSubscribers, returned, timerVars, searchVars, domVars>>

\* DataManager.subscribe(callback) and the function it returns
subscribe(callback) ==
  /\ phase = "ready"
  /\ Len(subscribers) < MaxSubscribers
  /\ subscribers' = Append(subscribers, callback)
  /\ lastOp' = Op("subscribe", [NoArgs EXCEPT !.cb = callback])
  /\ notified' = 0
  /\ invoked' = <<>>
  /\ UNCHANGED <<phase, incidents, selectedIds, currentSort, filterVars,
                 valueCache, pageVars, rendered, currentIncident,
                 selSubscribers, callVars, timerVars, searchVars, domVars>>

unsubscribe(callback) ==
  /\ phase = "ready"
  /\ callback \in Range(subscribers)
  /\ subscribers' = DataManager_unsubscribe(subscribers, callback)
  /\ lastOp' = Op("unsubscribe", [NoArgs EXCEPT !.cb = callback])
  /\ notified' = 0
  /\ invoked' = <<>>
  /\ UNCHANGED <<phase, incidents, selectedIds, currentSort, filterVars,
                 valueCache, pageVars, rendered, currentIncident,
                 selSubscribers, callVars, timerVars, searchVars, domVars>>

\* SelectionManager.subscribe(callback) and the function it returns
selSubscribe(callback) ==
  /\ phase = "ready"
  /\ Len(selSubscribers) < MaxSubscribers
  /\ selSubscribers' = Append(selSubscribers, callback)
  /\ lastOp' = Op("selSubscribe", [NoArgs EXCEPT !.cb = callback])
  /\ notified' = 0
  /\ invoked' = <<>>
  /\ UNCHANGED <<phase, storeVars, selectedIds, currentSort, filterVars,
                 valueCache, pageVars, rendered, currentIncident, callVars,
                 timerVars, searchVars, domVars>>

selUnsubscribe(callback) ==
  /\ phase = "ready"
  /\ callback \in Range(selSubscribers)
  /\ selSubscribers' = SelectionManager_unsubscribe(selSubscribers, callback)
  /\ lastOp' = Op("selUnsubscribe", [NoArgs EXCEPT !.cb = callback])
  /\ notified' = 0
  /\ invoked' = <<>>
  /\ UNCHANGED <<phase, storeVars, selectedIds, currentSort, filterVars,
                 valueCache, pageVars, rendered, currentIncident, callVars,
                 timerVars, searchVars, domVars>>

\* SortingManager.sort(DataManager.getAll(), columnIndex) called directly
sort(columnIndex) ==
  /\ phase = "ready"
  /\ LET r == SortingManager_sort(currentSort, incidents, columnIndex) IN
     /\ currentSort' = r.state
     /\ returned' = r.out
  /\ lastOp' = Op("sort", [NoArgs EXCEPT !.col = columnIndex])
  /\ notified' = 0
  /\ invoked' = <<>>
  /\ UNCHANGED <<phase, storeVars, selectedIds, filterVars, valueCache,
                 pageVars, rendered, currentIncident, selSubscribers, held,
                 timerVars, searchVars, domVars>>

\* ------------------------------------------------------------------------
\* The owner search box of the edit modal
\* ------------------------------------------------------------------------
SearchFrame ==
  /\ notified' = 0
  /\ invoked' = <<>>
  /\ UNCHANGED <<phase, storeVars, selectedIds, currentSort, filterVars,
                 valueCache, pageVars, rendered, currentIncident,
                 selSubscribers, callVars, domVars>>

\* a call of a debounced function: the burst goes on when the timeout of
\* the previous call is still pending, and starts anew otherwise
Called(d, args) ==
  /\ timers' = [timers EXCEPT ![d] = debounce_call(@, args)]
  /\ bursts' = [bursts EXCEPT ![d] =
                   [calls |-> IF timers[d].pending THEN Append(@.calls, args)
                              ELSE <<args>>,
                    ran |-> IF timers[d].pending THEN @.ran ELSE <<>>,
                    since |-> 0]]

\* the input listener of ownerInput: searchUsers(e.target.value)
ownerInput(value) ==
  /\ phase = "ready"
  /\ currentIncident # NoIncident
  /\ Len(typed) < MaxKeystrokes
  /\ typed' = Append(typed, value)
  /\ Called("searchUsers", value)
  /\ lastOp' = Op("ownerInput", [NoArgs EXCEPT !.id = value])
  /\ UNCHANGED <<inflight, issued, answered, suggestions>>
  /\ SearchFrame

\* one tick of the clock; a timeout that is due runs before the next tick
Tick ==
  /\ \E d \in Debounced : timers[d].pending
  /\ \A d \in Debounced : timers[d].pending => timers[d].remaining > 0
  /\ timers' = [d \in Debounced |->
                  IF timers[d].pending
                  THEN [timers[d] EXCEPT !.remaining = @ - 1] ELSE timers[d]]
  /\ bursts' = [d \in Debounced |->
                  IF timers[d].pending
                  THEN [bursts[d] EXCEPT !.since = @ + 1] ELSE bursts[d]]
  /\ lastOp' = Op("tick", NoArgs)
  /\ UNCHANGED searchVars
  /\ SearchFrame

\* the timeout of searchUsers runs `later`: the body of ModalManager.searchUsers
\* up to its await
searchUsersFires ==
  /\ timers["searchUsers"].pending
  /\ timers["searchUsers"].remaining = 0
  /\ LET query == timers["searchUsers"].args IN
     /\ timers' = [timers EXCEPT !["searchUsers"] = NoTimer]
     /\ bursts' = [bursts EXCEPT !["searchUsers"].ran = Append(@, query)]
     /\ IF tooShort(query)
        THEN /\ suggestions' = <<>>
             /\ UNCHANGED <<inflight, issued, answered>>
        ELSE IF ApiClient_searchUsers(query)
        THEN /\ inflight' = inflight \cup
                              {[seq |-> Len(issued) + 1, query |-> query]}
             /\ issued' = Append(issued, query)
             /\ UNCHANGED <<answered, suggestions>>
        ELSE /\ suggestions' = <<>>
             /\ UNCHANGED <<inflight, issued, answered>>
  /\ lastOp' = Op("searchUsersFires", NoArgs)
  /\ UNCHANGED typed
  /\ SearchFrame

\* the response to a request arrives (ok) or the request fails: the
\* continuation of ModalManager.searchUsers
searchResponse(request, ok) ==
  /\ request \in inflight
  /\ inflight' = inflight \ {request}
  /\ suggestions' = searchUsers_resume(suggestions, answered, request,
                                       IF ok THEN UserSearch(request.query)
                                       ELSE <<>>)
  /\ answered' = Append(answered, request.seq)
  /\ lastOp' = Op("searchResponse", [NoArgs EXCEPT !.col = request.seq,
                                                  !.flag = ok])
  /\ UNCHANGED <<typed, issued, timerVars>>
  /\ SearchFrame

\* ------------------------------------------------------------------------
\* The text filter inputs
\* ------------------------------------------------------------------------
\* an input event on the .col-filter input of a column: the one debounced
\* EventHandlers.handleFilterInput is called with the event
filterInputEvent(colIndex, value) ==
  /\ phase = "ready"
  /\ ~timers["handleFilterInput"].pending
       \/ Len(bursts["handleFilterInput"].calls) < MaxKeystrokes
  /\ value # inputValues[colIndex]
  /\ inputValues' = [inputValues EXCEPT ![colIndex] = value]
  /\ Called("handleFilterInput", colIndex)
  /\ lastOp' = Op("filterInputEvent",
                  [NoArgs EXCEPT !.col = colIndex, !.id = value])
  /\ notified' = 0
  /\ invoked' = <<>>
  /\ UNCHANGED <<phase, storeVars, selectedIds, currentSort, filterVars,
                 valueCache, pageVars, rendered, currentIncident,
                 selSubscribers, callVars, searchVars, errors, loads>>

\* the timeout runs the handler with the last event of the burst: it reads
\* e.target.value as it is now
handleFilterInputFires ==
  /\ phase = "ready"
  /\ timers["handleFilterInput"].pending
  /\ timers["handleFilterInput"].remaining = 0
  /\ LET colIndex == timers["handleFilterInput"].args IN
     /\ textFilters' = FilterManager_set(textFilters, colIndex,
                                         inputValues[colIndex])
     /\ applyFiltersAndUpdate(incidents, textFilters', dropdownFilters)
     /\ bursts' = [bursts EXCEPT !["handleFilterInput"].ran = Append(@, colIndex)]
     /\ lastOp' = Op("filterInput", [NoArgs EXCEPT !.col = colIndex,
                                                  !.id = inputValues[colIndex]])
  /\ timers' = [timers EXCEPT !["handleFilterInput"] = NoTimer]
  /\ notified' = 0
  /\ invoked' = <<>>
  /\ UNCHANGED <<phase, storeVars, selectedIds, dropdownFilters, valueCache,
                 currentIncident, selSubscribers, callVars, searchVars,
                 domVars>>

\* PaginationManager called directly
PaginationFrame ==
  /\ notified' = 0
  /\ invoked' = <<>>
  /\ UNCHANGED <<phase, storeVars, selectedIds, currentSort, filterVars,
                 valueCache, rendered, currentIncident, selSubscribers, held,
                 timerVars, searchVars, domVars>>

PaginationManager_init(total) ==
  /\ totalItems' = total
  /\ currentPage' = 1
  /\ returned' = Undefined
  /\ lastOp' = Op("pageInit", [NoArgs EXCEPT !.col = total])
  /\ PaginationFrame

PaginationManager_setPage(page) ==
  /\ currentPage' = setPage(page, totalItems)
  /\ returned' = currentPage'
  /\ lastOp' = Op("setPage", [NoArgs EXCEPT !.col = page])
  /\ UNCHANGED totalItems
  /\ PaginationFrame

nextPage ==
  /\ currentPage' = setPage(currentPage + 1, totalItems)
  /\ returned' = currentPage'
  /\ lastOp' = Op("nextPage", NoArgs)
  /\ UNCHANGED totalItems
  /\ PaginationFrame

prevPage ==
  /\ currentPage' = setPage(currentPage - 1, totalItems)
  /\ returned' = currentPage'
  /\ lastOp' = Op("prevPage", NoArgs)
  /\ UNCHANGED totalItems
  /\ PaginationFrame

PaginationManager_getPaginationInfo ==
  /\ returned' = getPaginationInfo(currentPage, totalItems)
  /\ lastOp' = Op("getPaginationInfo", NoArgs)
  /\ UNCHANGED pageVars
  /\ PaginationFrame

reset ==
  /\ currentPage' = 1
  /\ totalItems' = 0
  /\ returned' = Undefined
  /\ lastOp' = Op("pageReset", NoArgs)
  /\ PaginationFrame

\* ------------------------------------------------------------------------
\* Specifications
\* ------------------------------------------------------------------------
Generated(serverData) == [DOMAIN serverData -> GeneratedIds]

\* the grid as the operator drives it
UiResponses == { <<rawA, rawB, rawC, rawD>>, <<rawNoId, rawB>> }
UiFilterColumns == {1}
UiFilterInputs == { Empty, <<32, 66, 32>> }
UiDropdownColumns == {4}
UiPatches == { FormPatch(s_bob, Empty, s_20, Empty) }

Next ==
  \/ \E r \in UiResponses : \E g \in Generated(r) : AppInit(r, g)
  \/ \E f \in LoadFailures : AppInitFails(f)
  \/ \E c \in SortableColumns : handleHeaderClick(c)
  \/ \E c \in UiFilterColumns, v \in UiFilterInputs : handleFilterInput(c, v)
  \/ \E c \in UiDropdownColumns : \E v \in valueCache[c] : dropdownCheckboxChange(c, v)
  \/ \E c \in UiDropdownColumns : selectAll(c)
  \/ \E c \in UiDropdownColumns : clearSelection(c)
  \/ clearAllFiltersClick
  \/ \E b \in {"prev", "next", "number"}, p \in 1..2 : handlePaginationClick(b, p)
  \/ \E id \in RenderedIds : handleEditClick(id)
  \/ \E u \in UiPatches : save(u)
  \/ close

Spec == Init /\ [][Next]_vars

\* the record store called directly, with ids and patches of every kind
ApiResponses == { <<>>, <<rawA, rawB, rawC>>, <<rawA, rawA2>>,
                  <<rawNoId, rawB, rawNoId>> }
ApiIds == {s_A, s_B, s_Z}
ApiPatches == { [status |-> s_20],
                FormPatch(s_bob, s_NO, Empty, s_note),
                [id |-> s_B] }

NextApi ==
  \/ \E r \in ApiResponses : \E g \in Generated(r) : AppInit(r, g)
  \/ \E id \in ApiIds, u \in ApiPatches : update(id, u)
  \/ \E ids \in SUBSET ApiIds, u \in ApiPatches : bulkUpdate(ids, u)

SpecApi == Init /\ [][NextApi]_vars

\* the selection store called directly
SelIds == {s_A, s_B, s_C, s_Z}

NextSel ==
  \/ \E r \in ApiResponses : \E g \in Generated(r) : AppInit(r, g)
  \/ \E id \in SelIds : toggle(id)
  \/ \E ids \in SUBSET SelIds, selected \in BOOLEAN : setAll(ids, selected)
  \/ \E checked \in BOOLEAN : handleSelectAll(checked)
  \/ clearSelectionClick

SpecSel == Init /\ [][NextSel]_vars

\* the filter stage with every kind of constraint
FilterResponses == { <<rawA, rawB, rawC>>, <<rawC, rawA2, rawB>> }
FilterColumns == {1, 7, 8}
FilterInputs == { Empty, <<32, 66, 32>>, <<107>> }

NextFilter ==
  \/ \E r \in FilterResponses : \E g \in Generated(r) : AppInit(r, g)
  \/ \E c \in FilterColumns, v \in FilterInputs : handleFilterInput(c, v)
  \/ \E c \in DropdownColumns : \E v \in valueCache[c] : dropdownCheckboxChange(c, v)
  \/ \E c \in DropdownColumns : selectAll(c)
  \/ \E c \in DropdownColumns : clearSelection(c)
  \/ clearAllFiltersClick

SpecFilter == Init /\ [][NextFilter]_vars

\* the two stores with subscribers coming and going: f is a plain callback
\* and may be registered more than once, once unsubscribes itself when run
ObsCallbacks == {"f", "once"}
ObsResponses == { <<rawA, rawB>> }
ObsIds == {s_A, s_Z}
ObsPatches == { [status |-> s_20] }

NextObs ==
  \/ \E r \in ObsResponses : \E g \in Generated(r) : AppInit(r, g)
  \/ \E callback \in ObsCallbacks : subscribe(callback)
  \/ \E callback \in ObsCallbacks : unsubscribe(callback)
  \/ \E callback \in ObsCallbacks : selSubscribe(callback)
  \/ \E callback \in ObsCallbacks : selUnsubscribe(callback)
  \/ \E r \in ObsResponses : \E g \in Generated(r) :
       setData(transformServerData(r, g))
  \/ \E id \in ObsIds, u \in ObsPatches : update(id, u)
  \/ \E u \in ObsPatches : bulkUpdate({s_B, s_Z}, u)
  \/ \E id \in ObsIds : toggle(id)
  \/ \E selected \in BOOLEAN : setAll({s_A, s_B}, selected)
  \/ clearSelectionClick

SpecObs == Init /\ [][NextObs]_vars

\* a caller that keeps and changes what getAll() returned
AliasPatches == { [status |-> s_10], [owner |-> s_bob] }

NextAlias ==
  \/ \E r \in ObsResponses : \E g \in Generated(r) : AppInit(r, g)
  \/ getAll
  \/ callerPop
  \/ \E i \in 1..2, u \in AliasPatches : callerAssign(i, u)
  \/ \E r \in ObsResponses : \E g \in Generated(r) :
       setData(transformServerData(r, g))
  \/ \E id \in ObsIds, u \in ObsPatches : update(id, u)
  \/ \E u \in ObsPatches : bulkUpdate({s_B, s_Z}, u)

SpecAlias == Init /\ [][NextAlias]_vars

\* the sort stage called directly, on lists with and without equal keys
SortResponses == { <<rawA, rawB, rawC>>, <<rawC, rawA2, rawB>>,
                   <<rawA, rawB, rawC, rawD>>, <<rawNoId, rawB>> }
SortColumns == 1..(Len(columns) + 1)

NextSort ==
  \/ \E r \in SortResponses : \E g \in Generated(r) : AppInit(r, g)
  \/ \E c \in SortColumns : sort(c)
  \/ \E id \in ObsIds, u \in ObsPatches : update(id, u)

SpecSort == Init /\ [][NextSort]_vars

\* the owner search box: typing, the clock, and the answers of the endpoint
OwnerInputs == { Empty, <<97>>, <<98>>, <<97, 110>>, s_bo }

NextSearch ==
  \/ \E r \in ObsResponses : \E g \in Generated(r) : AppInit(r, g)
  \/ \E id \in RenderedIds : handleEditClick(id)
  \/ \E value \in OwnerInputs : ownerInput(value)
  \/ Tick
  \/ searchUsersFires
  \/ \E request \in inflight, ok \in BOOLEAN : searchResponse(request, ok)
  \/ close

SpecSearch == Init /\ [][NextSearch]_vars

\* the operator typing into the text filter inputs
TypingResponses == { <<rawA, rawB, rawC>> }
TypingInputs == { Empty, <<32, 66, 32>>, <<111>> }

NextTyping ==
  \/ \E r \in TypingResponses : \E g \in Generated(r) : AppInit(r, g)
  \/ \E c \in TextColumns, v \in TypingInputs : filterInputEvent(c, v)
  \/ Tick
  \/ handleFilterInputFires
  \/ clearAllFiltersClick

SpecTyping == Init /\ [][NextTyping]_vars

\* the edit modal with rows ticked
ModalResponses == { <<rawA, rawB, rawC>>, <<rawA, rawA2>>, <<rawNoId, rawB>> }
ModalPatches == { FormPatch(s_bob, Empty, s_20, Empty),
                  FormPatch(s_Ann, s_NO, s_10, s_note) }

NextModal ==
  \/ \E r \in ModalResponses : \E g \in Generated(r) : AppInit(r, g)
  \/ \E id \in RenderedIds : handleCheckboxChange(id)
  \/ \E checked \in BOOLEAN : handleSelectAll(checked)
  \/ \E id \in RenderedIds : handleEditClick(id)
  \/ \E u \in ModalPatches : save(u)
  \/ close

SpecModal == Init /\ [][NextModal]_vars

\* the transform step applied to raw records with any fields missing
RawValue(field) ==
  CASE field = "incident_record_id" -> s_A
    [] field = "pk" -> s_kB
    [] field = "executor_name" -> s_Ann
    [] field = "owner" -> s_bob
    [] field = "status" -> s_10
    [] field = "exception" -> s_NO
    [] field = "comment" -> s_note
RawFields == {"incident_record_id", "pk", "executor_name", "owner", "status",
              "exception", "comment"}
RawItems == {[f \in present |-> RawValue(f)] : present \in SUBSET RawFields}
RawResponses == {<<item>> : item \in RawItems} \cup {<<rawNoId, rawB>>}

TransformFrame ==
  /\ notified' = 0
  /\ invoked' = <<>>
  /\ UNCHANGED <<phase, storeVars, selectedIds, currentSort, filterVars,
                 valueCache, pageVars, rendered, currentIncident,
                 selSubscribers, held, timerVars, searchVars, domVars>>

\* transformServerData(data), as ApiClient.loadIncidents calls it
transform(serverData, generated) ==
  /\ returned' = transformServerData(serverData, generated)
  /\ lastOp' = Op("transformServerData", [raw |-> serverData] @@ NoArgs)
  /\ TransformFrame

\* the same call in the earlier revision
transform0(serverData) ==
  /\ returned' = transformServerData0(serverData)
  /\ lastOp' = Op("transformServerData0", [raw |-> serverData] @@ NoArgs)
  /\ TransformFrame

NextTransform ==
  \/ \E r \in RawResponses : \E g \in Generated(r) : transform(r, g)
  \/ \E r \in RawResponses : transform0(r)

SpecTransform == Init /\ [][NextTransform]_vars

\* the pagination stage called directly
MaxTotal == 9
Totals == 0..MaxTotal
PageArgs == (0 - 2)..(MaxTotal + 1)

NextPage ==
  \/ \E total \in Totals : PaginationManager_init(total)
  \/ \E page \in PageArgs : PaginationManager_setPage(page)
  \/ nextPage
  \/ prevPage
  \/ PaginationManager_getPaginationInfo
  \/ reset

SpecPage == Init /\ [][NextPage]_vars

\* ------------------------------------------------------------------------
\* The earlier revision of the grid
\* ------------------------------------------------------------------------
Pipeline0(list, tf, cs, columnIndex) ==
  SortingManager_sort0(cs, FilterManager_apply0(tf, list), columnIndex)

AppInit0(serverData) ==
  /\ phase = "loading"
  /\ LET data == transformServerData0(serverData) IN
     /\ incidents' = data
     /\ RenderFirstPage(data)
  /\ notified' = Len(subscribers)
  /\ subscribers' = <<"onDataChanged">>
  /\ phase' = "ready"
  /\ lastOp' = Op("init", NoArgs)
  /\ loads' = loads + 1
  /\ invoked' = <<>>
  /\ UNCHANGED <<selectedIds, currentSort, filterVars, valueCache,
                 currentIncident, selSubscribers, callVars, timerVars,
                 searchVars, errors, inputValues>>

handleFilterInput0(colIndex, value) ==
  /\ phase = "ready"
  /\ textFilters' = FilterManager_set(textFilters, colIndex, value)
  /\ LET r == Pipeline0(incidents, textFilters', currentSort, currentSort.index) IN
     /\ currentSort' = r.state
     /\ RenderFirstPage(r.out)
  /\ lastOp' = Op("filterInput", [NoArgs EXCEPT !.col = colIndex, !.id = value])
  /\ notified' = 0
  /\ UNCHANGED <<phase, storeVars, selectedIds, dropdownFilters, valueCache,
                 currentIncident>>
  /\ Quiet

handleHeaderClick0(colIndex) ==
  /\ phase = "ready"
  /\ LET r == Pipeline0(incidents, textFilters, currentSort, colIndex) IN
     /\ currentSort' = r.state
     /\ RenderFirstPage(r.out)
  /\ lastOp' = Op("headerClick", [NoArgs EXCEPT !.col = colIndex])
  /\ notified' = 0
  /\ UNCHANGED <<phase, storeVars, selectedIds, filterVars, valueCache,
                 currentIncident>>
  /\ Quiet

handlePaginationClick0(btn, page) ==
  /\ phase = "ready"
  /\ btn \in PageButtons
  /\ page \in 1..getTotalPages(totalItems)
  /\ currentPage' = IF btn = "prev" THEN setPage(currentPage - 1, totalItems)
                    ELSE IF btn = "next" THEN setPage(currentPage + 1, totalItems)
                    ELSE setPage(page, totalItems)
  /\ LET r == Pipeline0(incidents, textFilters, currentSort, currentSort.index) IN
     /\ currentSort' = r.state
     /\ rendered' = getPageData(r.out, currentPage')
  /\ lastOp' = Op("paginationClick", [NoArgs EXCEPT !.col = page])
  /\ notified' = 0
  /\ UNCHANGED <<phase, storeVars, selectedIds, filterVars, valueCache,
                 totalItems, currentIncident>>
  /\ Quiet

OldResponses == { <<rawA, rawB, rawC>>, <<rawNoId, rawC, rawNoId>> }
OldFilterColumns == {1, 4, 8}
OldFilterInputs == { Empty, <<32, 66, 32>>, <<50>> }

NextOld ==
  \/ \E r \in OldResponses : AppInit0(r)
  \/ \E c \in OldFilterColumns, v \in OldFilterInputs : handleFilterInput0(c, v)
  \/ \E c \in SortableColumns : handleHeaderClick0(c)
  \/ \E b \in {"prev", "next", "number"}, p \in 1..2 : handlePaginationClick0(b, p)

SpecOld == Init /\ [][NextOld]_vars

\* ------------------------------------------------------------------------
\* C1
\* ------------------------------------------------------------------------
\* the handlers that re-run the pipeline
Triggers == {"headerClick", "filterInput", "dropdownChange", "dropdownSelectAll",
             "dropdownClear", "clearAllFilters", "paginationClick"}
Triggered == lastOp.name \in Triggers \/ (lastOp.name = "save" /\ notified > 0)

\* Sort(Filter(all records)) under the filters and the sort state now held
SortedFiltered ==
  sortedCopy(FilterManager_apply(textFilters, dropdownFilters, incidents),
             currentSort)

\* C1 as stated: after every trigger, page navigation included, pagination has
\* been re-initialized to the length of the sorted filtered list (init leaves
\* currentPage = 1) and the rendered page is that slice of Sort(Filter(all)).
C1_ReinitOnEveryTrigger ==
  Triggered =>
    /\ totalItems = Len(SortedFiltered)
    /\ currentPage = 1
    /\ rendered = getPageData(SortedFiltered, 1)

\* C1 amended: after every trigger the rendered page is the currentPage slice
\* of Sort(Filter(all records)) and totalItems is the length of that list;
\* every trigger but a page-navigation click has re-initialized pagination
\* (currentPage = 1), a page-navigation click leaves currentPage on the
\* clamped target page.
C1_PipelinePage ==
  Triggered =>
    /\ totalItems = Len(SortedFiltered)
    /\ rendered = getPageData(SortedFiltered, currentPage)
    /\ currentPage \in 1..getTotalPages(totalItems)
    /\ lastOp.name # "paginationClick" => currentPage = 1

\* a page-navigation click has shown the second page of a filtered list
C1_Witness ==
  /\ lastOp.name = "paginationClick"
  /\ currentPage = 2
  /\ rendered # <<>>
  /\ Len(SortedFiltered) < Len(incidents)

\* ------------------------------------------------------------------------
\* C2
\* ------------------------------------------------------------------------
\* the handlers that call SortingManager.sort once with getState().index
ResortOps == {"filterInput", "dropdownChange", "dropdownSelectAll",
              "dropdownClear", "paginationClick"}

\* what getState() must report after sort(data, c) from the state cs
ToggleRule(cs, c) ==
  IF c = cs.index THEN [index |-> c, asc |-> ~cs.asc]
  ELSE [index |-> c, asc |-> TRUE]

\* C2: every call sort(data, c) flips the direction when c is the column
\* sorted before and otherwise makes c the active column, ascending; the
\* state getState() reports is exactly that pair. A header click passes the
\* clicked column, every other handler passes getState().index.
C2_SortToggle ==
  [][ /\ lastOp'.name = "headerClick"
        => currentSort' = ToggleRule(currentSort, lastOp'.col)
      /\ (lastOp'.name \in ResortOps \/ (lastOp'.name = "save" /\ notified' > 0))
        => currentSort' = ToggleRule(currentSort, currentSort.index)
      /\ lastOp'.name = "clearAllFilters"
        => currentSort' = ToggleRule(ToggleRule(currentSort, currentSort.index),
                                     currentSort.index) ]_vars

\* a second click on the same header has flipped the direction to descending
C2_Witness ==
  /\ lastOp.name = "headerClick"
  /\ currentSort.index = lastOp.col
  /\ ~currentSort.asc

\* ------------------------------------------------------------------------
\* C3
\* ------------------------------------------------------------------------
\* C3: setAll(ids, true) leaves the union of the old selection and ids;
\* setAll(ids, false) leaves the empty selection whatever ids holds.
C3_SetAllAsymmetric ==
  [][ lastOp'.name = "setAll" =>
        IF lastOp'.flag
        THEN /\ \A id \in lastOp'.ids : id \in selectedIds'
             /\ \A id \in selectedIds : id \in selectedIds'
             /\ \A id \in selectedIds' : id \in selectedIds \/ id \in lastOp'.ids
        ELSE selectedIds' = {} ]_vars

\* setAll(ids, true) has kept an id that was selected and is not in ids
C3_Witness ==
  /\ lastOp.name = "setAll"
  /\ lastOp.flag
  /\ lastOp.ids # {}
  /\ selectedIds \ lastOp.ids # {}

\* ------------------------------------------------------------------------
\* C4
\* ------------------------------------------------------------------------
HasId(list, id) == \E i \in DOMAIN list : list[i].id = id

\* C4: update(id, patch) with an id no record has changes nothing: the list
\* is the same, no subscriber runs, and so nothing a subscriber maintains
\* (value cache, sort state, pagination, rendered rows) changes.
C4_UpdateUnknownId ==
  [][ (lastOp'.name = "update" /\ ~HasId(incidents, lastOp'.id)) =>
        /\ incidents' = incidents
        /\ notified' = 0
        /\ UNCHANGED <<valueCache, currentSort, currentPage, totalItems,
                       rendered>> ]_vars

\* update was called on a non-empty store with an id no record has
C4_Witness ==
  /\ lastOp.name = "update"
  /\ incidents # <<>>
  /\ ~HasId(incidents, lastOp.id)
  /\ lastOp.id = s_Z
  /\ notified = 0

\* ------------------------------------------------------------------------
\* C5
\* ------------------------------------------------------------------------
\* `after` is `before` with every field of patch overwritten and nothing else
MergedInto(before, patch, after) ==
  /\ DOMAIN after = (DOMAIN before) \cup (DOMAIN patch)
  /\ \A k \in DOMAIN patch : after[k] = patch[k]
  /\ \A k \in (DOMAIN before) \ (DOMAIN patch) : after[k] = before[k]

\* C5: bulkUpdate(ids, patch) merges patch into every record whose id is in
\* ids, leaves every other record as it was, and on a non-empty store invokes
\* the subscribers even when no id matched.
C5_BulkUpdate ==
  [][ lastOp'.name = "bulkUpdate" =>
        /\ Len(incidents') = Len(incidents)
        /\ \A i \in DOMAIN incidents :
             IF incidents[i].id \in lastOp'.ids
             THEN MergedInto(incidents[i], lastOp'.patch, incidents'[i])
             ELSE incidents'[i] = incidents[i]
        /\ incidents # <<>> =>
             (notified' = Len(subscribers) /\ notified' > 0) ]_vars

\* bulkUpdate on a non-empty store matched no id and still notified
C5_Witness ==
  /\ lastOp.name = "bulkUpdate"
  /\ incidents # <<>>
  /\ lastOp.ids = {s_Z}
  /\ ~HasId(incidents, s_Z)
  /\ notified > 0

\* ------------------------------------------------------------------------
\* C6
\* ------------------------------------------------------------------------
\* C6: update and bulkUpdate, with any patch, keep the length of the list and
\* the id at every position.
C6_IdsStable ==
  [][ lastOp'.name \in {"update", "bulkUpdate"} =>
        /\ Len(incidents') = Len(incidents)
        /\ \A i \in DOMAIN incidents : incidents'[i].id = incidents[i].id ]_vars

\* ------------------------------------------------------------------------
\* C7
\* ------------------------------------------------------------------------
\* C7: the ids of the records in the store are pairwise distinct.
C7_UniqueIds ==
  \A i, j \in DOMAIN incidents : i # j => incidents[i].id # incidents[j].id

\* ------------------------------------------------------------------------
\* C8
\* ------------------------------------------------------------------------
\* the field a column shows, as a string: a missing field is the empty string
FieldOf(item, c) ==
  LET key == CASE c = 1 -> "pk" [] c = 2 -> "owner" [] c = 3 -> "exception"
               [] c = 4 -> "status" [] c = 7 -> "comment" IN
  IF key \in DOMAIN item /\ item[key] # Undefined THEN item[key] ELSE Empty

\* the constraints apply evaluates: text on columns 1 and 7, non-empty sets on
\* columns 2, 3 and 4
ActiveText == (DOMAIN textFilters) \cap {1, 7}
ActiveSets == {c \in DropdownColumns : dropdownFilters[c] # {}}

SatisfiesText(item, c) == includes(toLowerCase(FieldOf(item, c)), textFilters[c])
SatisfiesSet(item, c) == FieldOf(item, c) \in dropdownFilters[c]
SatisfiesAll(item) ==
  /\ \A c \in ActiveText : SatisfiesText(item, c)
  /\ \A c \in ActiveSets : SatisfiesSet(item, c)

MappedOnly(tf) == [c \in (DOMAIN tf) \cap (1..Len(columns0)) |-> tf[c]]

\* C9: a constraint stored for a column that maps to no record field removes
\* no record: the filter stage keeps what the constraints on mapped columns
\* keep (earlier revision of the filter stage).
C9_UnmappedColumnIgnored ==
  phase = "ready" =>
    totalItems = Len(FilterManager_apply0(MappedOnly(textFilters), incidents))

\* ------------------------------------------------------------------------
\* C10
\* ------------------------------------------------------------------------
\* the result under the text constraints tf and set constraints df
Result(tf, df) == FilterManager_apply(tf, df, incidents)

OnlyText(c) == [d \in {c} |-> textFilters[c]]
OnlySet(c) == [d \in DropdownColumns |-> IF d = c THEN dropdownFilters[c] ELSE {}]

\* the single-constraint results of the active constraints
SingleResults ==
  {Result(OnlyText(c), NoDropdownFilters) : c \in ActiveText}
    \cup {Result(NoTextFilters, OnlySet(c)) : c \in ActiveSets}

InAll(item) == \A r \in SingleResults : item \in Range(r)

\* s is t with some elements left out
RECURSIVE IsSubsequence(_, _)
IsSubsequence(s, t) ==
  IF s = <<>> THEN TRUE
  ELSE IF t = <<>> THEN FALSE
  ELSE IF Head(s) = Head(t) THEN IsSubsequence(Tail(s), Tail(t))
  ELSE IsSubsequence(s, Tail(t))

\* C10: the result under the active constraints is the intersection of their
\* single-constraint results; one more constraint, text or set, on a column
\* that has none never enlarges the result; and setting two text constraints
\* in either order stores the same criteria.
C10_NarrowsAndCommutes ==
  phase = "ready" =>
    /\ Result(textFilters, dropdownFilters) = SelectSeq(incidents, InAll)
    /\ \A c \in {1, 7} \ DOMAIN textFilters, v \in FilterInputs :
         IsSubsequence(Result(FilterManager_set(textFilters, c, v), dropdownFilters),
                       Result(textFilters, dropdownFilters))
    /\ \A c \in DropdownColumns \ ActiveSets : \A v \in valueCache[c] :
         IsSubsequence(Result(textFilters, [dropdownFilters EXCEPT ![c] = {v}]),
                       Result(textFilters, dropdownFilters))
    /\ \A c, d \in {1, 7}, v, w \in FilterInputs :
         c # d =>
           FilterManager_set(FilterManager_set(textFilters, c, v), d, w)
             = FilterManager_set(FilterManager_set(textFilters, d, w), c, v)

\* two constraints on different columns are active and each alone keeps a
\* record the other rejects
C10_Witness ==
  /\ phase = "ready"
  /\ Cardinality(SingleResults) >= 2
  /\ \E r1, r2 \in SingleResults :
       /\ Range(r1) \ Range(r2) # {}
       /\ Range(r2) \ Range(r1) # {}
  /\ totalItems = Len(SelectSeq(incidents, InAll))

\* ------------------------------------------------------------------------
\* C11
\* ------------------------------------------------------------------------
\* ceil(totalItems / pageSize), floored at 1
CeilPages(total) ==
  LET n == CHOOSE k \in 0..total :
             k * ITEMS_PER_PAGE >= total /\ (k - 1) * ITEMS_PER_PAGE < total IN
  IF n < 1 THEN 1 ELSE n

Clamp(n, lo, hi) == IF n < lo THEN lo ELSE IF n > hi THEN hi ELSE n

\* C11: setPage(n) leaves and returns n clamped into [1, totalPages], with
\* totalPages = ceil(totalItems / pageSize) floored at 1; nextPage and
\* prevPage behave as setPage(current + 1) and setPage(current - 1); and
\* after any sequence of init, setPage, nextPage, prevPage and reset calls
\* 1 <= currentPage <= totalPages.
C11_PageClamped ==
  /\ [](1 <= currentPage /\ currentPage <= CeilPages(totalItems))
  /\ [][ /\ lastOp'.name = "setPage" =>
             /\ currentPage' = Clamp(lastOp'.col, 1, CeilPages(totalItems))
             /\ returned' = currentPage'
         /\ lastOp'.name = "nextPage" =>
             /\ currentPage' = Clamp(currentPage + 1, 1, CeilPages(totalItems))
             /\ returned' = currentPage'
         /\ lastOp'.name = "prevPage" =>
             /\ currentPage' = Clamp(currentPage - 1, 1, CeilPages(totalItems))
             /\ returned' = currentPage'
         /\ lastOp'.name \in {"setPage", "nextPage", "prevPage"} =>
             totalItems' = totalItems ]_vars

\* setPage was called below 1 on a later page of a list of several pages
C11_Witness ==
  /\ lastOp.name = "setPage"
  /\ lastOp.col < 1
  /\ currentPage = 1
  /\ CeilPages(totalItems) >= 3

\* ------------------------------------------------------------------------
\* C12
\* ------------------------------------------------------------------------
\* C12: getPaginationInfo() reports startItem = (currentPage-1)*pageSize + 1
\* and endItem = min(currentPage*pageSize, totalItems) when totalItems > 0,
\* startItem = endItem = 0 and totalPages = 1 when totalItems = 0, hasPrev
\* iff currentPage > 1 and hasNext iff currentPage < totalPages, together
\* with the current page and the totals of the state.
C12_PaginationInfo ==
  lastOp.name = "getPaginationInfo" =>
    /\ returned.currentPage = currentPage
    /\ returned.totalItems = totalItems
    /\ returned.totalPages = CeilPages(totalItems)
    /\ (returned.hasPrev <=> currentPage > 1)
    /\ (returned.hasNext <=> currentPage < CeilPages(totalItems))
    /\ totalItems > 0 =>
         /\ returned.startItem = (currentPage - 1) * ITEMS_PER_PAGE + 1
         /\ returned.endItem =
              (IF currentPage * ITEMS_PER_PAGE < totalItems
               THEN currentPage * ITEMS_PER_PAGE ELSE totalItems)
         /\ returned.startItem <= returned.endItem
    /\ totalItems = 0 =>
         /\ returned.totalPages = 1
         /\ returned.startItem = 0
         /\ returned.endItem = 0

\* the info of the last, partly filled page, and the info of the empty list
C12_Witness ==
  /\ lastOp.name = "getPaginationInfo"
  /\ totalItems > 0
  /\ currentPage = CeilPages(totalItems)
  /\ currentPage > 1
  /\ returned.endItem = totalItems
  /\ returned.endItem < currentPage * ITEMS_PER_PAGE

\* ------------------------------------------------------------------------
\* C13
\* ------------------------------------------------------------------------
Without(subs, callback) == SelectSeq(subs, LAMBDA sub : sub # callback)
Names(calls) == {calls[i].cb : i \in DOMAIN calls}

\* C13: calling the function subscribe returned removes that callback and
\* only it: the callback is no longer registered, so that no later
\* notification invokes it (a notification invokes registered callbacks
\* only), and the other subscribers stay registered in their order, in
\* DataManager and in SelectionManager.
C13_UnsubscribeRemovesOnlyThat ==
  [][ /\ lastOp'.name = "unsubscribe" =>
           /\ lastOp'.cb \notin Range(subscribers')
           /\ Without(subscribers', lastOp'.cb) = Without(subscribers, lastOp'.cb)
           /\ selSubscribers' = selSubscribers
      /\ lastOp'.name = "selUnsubscribe" =>
           /\ lastOp'.cb \notin Range(selSubscribers')
           /\ Without(selSubscribers', lastOp'.cb) =
                Without(selSubscribers, lastOp'.cb)
           /\ subscribers' = subscribers
      /\ Names(invoked') \subseteq Range(subscribers) \cup Range(selSubscribers)
    ]_vars

\* ------------------------------------------------------------------------
\* C14
\* ------------------------------------------------------------------------
DataNotifying(op, list) ==
  \/ op.name \in {"setData", "bulkUpdate"}
  \/ op.name = "update" /\ HasId(list, op.id)
SelectionNotifying(op) == op.name \in {"toggle", "setAll", "clear"}

\* C14: each notifying call (setData, update with a known id, bulkUpdate;
\* toggle, setAll, clear) invokes, within the call, every subscriber
\* registered when it began exactly once, in order, with the state the
\* mutation left.
C14_NotifyComplete ==
  [][ /\ DataNotifying(lastOp', incidents) =>
           invoked' = [i \in DOMAIN subscribers |->
                        [cb |-> subscribers[i], arg |-> incidents']]
      /\ SelectionNotifying(lastOp') =>
           invoked' = [i \in DOMAIN selSubscribers |->
                        [cb |-> selSubscribers[i],
                         arg |-> getState(selectedIds')]]
    ]_vars

\* ------------------------------------------------------------------------
\* C15
\* ------------------------------------------------------------------------
\* C15: nothing a caller does to the list getAll() returned, or to the
\* records in it, changes what the store holds, and no later setData /
\* update / bulkUpdate changes a list getAll() returned earlier or its
\* records.
C15_GetAllDefensiveCopy ==
  [][ /\ lastOp'.name \in {"callerPop", "callerAssign"} =>
           incidents' = incidents
      /\ (held.taken /\ lastOp'.name \in {"setData", "update", "bulkUpdate"}) =>
           held'.items = held.items
    ]_vars

\* ------------------------------------------------------------------------
\* C16
\* ------------------------------------------------------------------------
\* C16: toggle(id) flips the membership of id, leaves the membership of
\* every other id as it was and returns a snapshot of the resulting set
\* whose count is its size; toggling the same id again restores the
\* membership id had before.
C16_ToggleFlips ==
  [][ lastOp'.name = "toggle" =>
        LET id == lastOp'.id IN
        /\ (id \in selectedIds') <=> (id \notin selectedIds)
        /\ selectedIds' \ {id} = selectedIds \ {id}
        /\ returned'.selectedIds = selectedIds'
        /\ returned'.count = Cardinality(selectedIds')
        /\ (id \in SelectionManager_toggle(selectedIds', id)) <=>
             (id \in selectedIds)
        /\ SelectionManager_toggle(selectedIds', id) \ {id} = selectedIds \ {id}
    ]_vars

\* an id was toggled off while two others stayed selected
C16_Witness ==
  /\ lastOp.name = "toggle"
  /\ lastOp.id \notin selectedIds
  /\ returned.count = 2
  /\ Cardinality(selectedIds) = 2

\* ------------------------------------------------------------------------
\* C17
\* ------------------------------------------------------------------------
Reverse(seq) == [i \in DOMAIN seq |-> seq[Len(seq) + 1 - i]]

\* the lowercased stringified key of a record for a column of the grid
SortKey(item, c) ==
  LET key == CASE c = 1 -> "pk" [] c = 2 -> "owner" [] c = 3 -> "exception"
               [] c = 4 -> "status" [] c = 5 -> "bd_table"
               [] c = 6 -> "bd_table_attr" [] c = 7 -> "comment"
               [] OTHER -> "none" IN
  IF key \in DOMAIN item /\ item[key] # Undefined
  THEN toLowerCase(item[key]) ELSE Empty

\* the keys of the column are pairwise distinct
DistinctKeys(list, c) ==
  \A i, j \in DOMAIN list : i # j => SortKey(list[i], c) # SortKey(list[j], c)

\* C17: when sort is called twice in a row with the same column, the first
\* call sorting ascending and the second descending, and the keys of that
\* column are pairwise distinct, the second result is the first one
\* reversed; and no sort call changes the list it was given.
C17_SortMirror ==
  [][ /\ lastOp'.name = "sort" => incidents' = incidents
      /\ ( /\ lastOp.name = "sort"
           /\ lastOp'.name = "sort"
           /\ lastOp'.col = lastOp.col
           /\ currentSort.asc
           /\ DistinctKeys(incidents, lastOp.col) )
         => /\ ~currentSort'.asc
            /\ returned' = Reverse(returned)
    ]_vars

\* three records with distinct keys, just sorted descending, in an order
\* that is neither the stored one nor its reverse
C17_Witness ==
  /\ lastOp.name = "sort"
  /\ ~currentSort.asc
  /\ Len(incidents) >= 3
  /\ DistinctKeys(incidents, lastOp.col)
  /\ returned # incidents
  /\ returned # Reverse(incidents)

\* ------------------------------------------------------------------------
\* C18
\* ------------------------------------------------------------------------
Last(seq) == seq[Len(seq)]

\* C18: of a burst of calls to a debounced function, each made while the
\* timeout of the previous one was pending, no call has run while the
\* timeout is pending, and once it is not, the function has run exactly
\* once, with the arguments of the last call, DEBOUNCE_DELAY after that call.
C18_TrailingDebounce ==
  \A d \in Debounced :
    /\ timers[d].pending => bursts[d].ran = <<>>
    /\ (~timers[d].pending /\ bursts[d].calls # <<>>) =>
         /\ bursts[d].ran = <<Last(bursts[d].calls)>>
         /\ bursts[d].since = DEBOUNCE_DELAY

\* a burst of three calls with different arguments has run its last call
C18_Witness ==
  /\ Len(bursts["searchUsers"].calls) = 3
  /\ bursts["searchUsers"].calls[1] # bursts["searchUsers"].calls[3]
  /\ bursts["searchUsers"].calls[2] # bursts["searchUsers"].calls[3]
  /\ bursts["searchUsers"].ran = <<bursts["searchUsers"].calls[3]>>
  /\ ~timers["searchUsers"].pending

\* ------------------------------------------------------------------------
\* C19
\* ------------------------------------------------------------------------
\* two input events below the minimum length, then one that reaches it
TwoShortThenLong ==
  /\ Len(typed) = 3
  /\ Len(typed[1]) < MIN_SEARCH_LENGTH
  /\ Len(typed[2]) < MIN_SEARCH_LENGTH
  /\ Len(typed[3]) >= MIN_SEARCH_LENGTH

\* C19: no request is sent for a query shorter than the minimum search
\* length; and after two input events below the minimum and a third that
\* reaches it, no request has been sent while the debounce timeout is
\* pending and exactly one, for the third value, once it has run.
C19_SearchThreshold ==
  /\ \A i \in DOMAIN issued : Len(issued[i]) >= MIN_SEARCH_LENGTH
  /\ TwoShortThenLong =>
       IF timers["searchUsers"].pending
       THEN issued = <<>>
       ELSE issued = <<typed[3]>>

\* the three events came within one debounce window and the one request
\* was sent
C19_Witness ==
  /\ TwoShortThenLong
  /\ ~timers["searchUsers"].pending
  /\ bursts["searchUsers"].calls = typed
  /\ issued = <<typed[3]>>

\* ------------------------------------------------------------------------
\* C20
\* ------------------------------------------------------------------------
\* the response that just arrived answers a request older than one already
\* answered
StaleArrival ==
  /\ lastOp.name = "searchResponse"
  /\ lastOp.flag
  /\ \E i \in DOMAIN answered : answered[i] > lastOp.col

\* C20: when the response to an earlier request arrives after the response
\* to a later one, the suggestion list holds the results of the earlier
\* query.
C20_StaleResponseWins ==
  StaleArrival => suggestions = UserSearch(issued[lastOp.col])

\* the earlier query's results differ from the later query's and are shown
C20_Witness ==
  /\ StaleArrival
  /\ Len(issued) >= 2
  /\ suggestions = UserSearch(issued[1])
  /\ suggestions # UserSearch(issued[2])
  /\ answered = <<2, 1>>

RawSources(field) ==
  CASE field = "id" -> {"incident_record_id", "id"}
    [] field = "owner" -> {"executor_name", "owner"}
    [] field = "masterIncident" -> {"master_incident_id"}
    [] OTHER -> {field}
DefaultedFields == {"id", "pk", "owner", "status", "masterIncident", "comment",
                    "bd_table", "bd_table_attr"}
Absent(raw, field) == \A k \in RawSources(field) : Get(raw, k) = Undefined

C22_TransformDefaults ==
  lastOp.name = "transformServerData" =>
    \A i \in DOMAIN returned :
      /\ \A f \in DefaultedFields :
           Absent(lastOp.raw[i], f) => returned[i][f] = Empty
      /\ returned[i].exception = s_NO <=> Absent(lastOp.raw[i], "status")

\* ------------------------------------------------------------------------
\* C23: only a sort-header click changes the sort state; a pipeline re-run
\* for a filter change, a page click or a data change leaves the (column,
\* direction) pair as it was, and a re-run that changes neither records,
\* filters nor page displays the same page again.
\* ------------------------------------------------------------------------
SameInputs ==
  /\ incidents' = incidents
  /\ textFilters' = textFilters
  /\ dropdownFilters' = dropdownFilters
  /\ currentPage' = currentPage

C23_SortStateFrame ==
  [][/\ lastOp'.name # "headerClick" => currentSort' = currentSort
     /\ lastOp'.name = "paginationClick" /\ SameInputs => rendered' = rendered]_vars

\* ------------------------------------------------------------------------
\* C24: with a sort column active and records and filters unchanged,
\* clicking 'next' from page 1 to the last page shows every filtered record
\* exactly once over the pages visited. Stated for lists of two pages, where
\* one click reaches the last page.
\* ------------------------------------------------------------------------
Occurrences(seq, x) == Cardinality({i \in DOMAIN seq : seq[i] = x})
IsPermutation(a, b) ==
  /\ Len(a) = Len(b)
  /\ \A x \in Range(a) \cup Range(b) : Occurrences(a, x) = Occurrences(b, x)

NextFromFirstToLast ==
  /\ phase = "ready"
  /\ currentSort.index # Null
  /\ currentPage = 1
  /\ getTotalPages(totalItems) = 2
  /\ lastOp'.name = "paginationClick"
  /\ currentPage' = 2

C24_NextCoversList ==
  [][NextFromFirstToLast =>
       IsPermutation(rendered \o rendered',
                     FilterManager_apply(textFilters, dropdownFilters,
                                         incidents))]_vars

\* ------------------------------------------------------------------------
\* C25: after every handler (filter change, header click, page click, record
\* update, clear-all-filters) totalItems is the number of store records that
\* pass the active filters, and the rendered rows are the currentPage window,
\* at most a page long, of the sorted filtered list.
\* ------------------------------------------------------------------------
Passing == {i \in DOMAIN incidents : SatisfiesAll(incidents[i])}
WindowStart == (currentPage - 1) * ITEMS_PER_PAGE
WindowRows == {k \in 1..Len(SortedFiltered) :
                 k > WindowStart /\ k <= WindowStart + ITEMS_PER_PAGE}

C25_TotalAndWindow ==
  /\ totalItems = Cardinality(Passing)
  /\ Len(rendered) = Cardinality(WindowRows)
  /\ Len(rendered) <= ITEMS_PER_PAGE
  /\ \A j \in DOMAIN rendered : rendered[j] = SortedFiltered[WindowStart + j]

\* a saved edit took a record out of the filtered list
C25_Witness ==
  /\ lastOp.name = "save"
  /\ notified > 0
  /\ totalItems > 0
  /\ totalItems < Len(incidents)
  /\ currentSort.index # Null
  /\ rendered # <<>>

\* ------------------------------------------------------------------------
\* C26
\* ------------------------------------------------------------------------
\* C26 as stated: save merges the form values into the record the modal was
\* opened for, whatever the selection is.
C26_SaveUpdatesCurrent ==
  [][lastOp'.name = "save" =>
       LET i == findIndex(incidents, currentIncident.id) IN
       MergedInto(incidents[i], lastOp'.patch, incidents'[i])]_vars

\* the records save writes to: the selected ones when any id is selected,
\* else the record the modal was opened for
SaveTargets ==
  IF selectedIds # {}
  THEN {i \in DOMAIN incidents : incidents[i].id \in selectedIds}
  ELSE {findIndex(incidents, currentIncident.id)}

\* C26 amended: save merges the form values into every selected record when
\* the selection is not empty, and into the record the modal was opened for
\* when it is empty; every other record, the modal's own record included when
\* others are selected and it is not, keeps its values.
C26_SaveUpdatesSelection ==
  [][lastOp'.name = "save" =>
       /\ DOMAIN incidents' = DOMAIN incidents
       /\ \A i \in DOMAIN incidents :
            IF i \in SaveTargets
            THEN MergedInto(incidents[i], lastOp'.patch, incidents'[i])
            ELSE incidents'[i] = incidents[i]]_vars

\* the modal was opened for a record that is not selected while another is:
\* the selected record carries the form values, the modal's record does not
C26_Witness ==
  /\ lastOp.name = "save"
  /\ selectedIds # {}
  /\ lastOp.id \notin selectedIds
  /\ \E i \in DOMAIN incidents :
       /\ incidents[i].id \in selectedIds
       /\ incidents[i].owner = lastOp.patch.owner
  /\ \E j \in DOMAIN incidents :
       /\ incidents[j].id = lastOp.id
       /\ incidents[j].owner # lastOp.patch.owner

\* ------------------------------------------------------------------------
\* C27: every value held in a dropdown set filter (owner, exception, status)
\* is in that column's value cache, so the dropdown offers a checkbox for
\* it, after any checkbox changes, select-all, clear and record updates.
\* ------------------------------------------------------------------------
C27_FilterValuesOffered ==
  \A c \in DropdownColumns : dropdownFilters[c] \subseteq valueCache[c]

\* ------------------------------------------------------------------------
\* C28: once the debounce delay has elapsed with no further input, the text
\* constraints FilterManager holds are the trimmed, lowercased contents of
\* the text filter inputs (columns 1 and 7), also when the operator typed
\* into two inputs within one debounce window.
\* ------------------------------------------------------------------------
ConstraintOf(value) == toLowerCase(trim(value))

C28_FiltersFollowInputs ==
  ~timers["handleFilterInput"].pending =>
    \A c \in TextColumns :
      IF ConstraintOf(inputValues[c]) = Empty
      THEN c \notin DOMAIN textFilters
      ELSE c \in DOMAIN textFilters /\ textFilters[c] = ConstraintOf(inputValues[c])

\* ------------------------------------------------------------------------
\* C29
\* ------------------------------------------------------------------------
ModalClosed == currentIncident = NoIncident

\* C29 as stated: after close() the suggestion list stays empty until the
\* modal is opened again, whatever timer or request was pending.
C29_ClosedMeansNoSuggestions ==
  ModalClosed => suggestions = <<>>

\* C29 amended: close() empties the suggestion list, and while the modal
\* stays closed the list becomes non-empty only when the response to a
\* user-search request that was still pending (in flight, or sent by the
\* pending debounce timer) arrives, and then it holds that request's
\* results; close() cancels neither the timer nor the request.
C29_ClosedUntilLateResponse ==
  /\ [](lastOp.name = "close" =>
          /\ suggestions = <<>>
          /\ ModalClosed)
  /\ [][(ModalClosed /\ ModalClosed' /\ suggestions = <<>> /\ suggestions' # <<>>) =>
          /\ lastOp'.name = "searchResponse"
          /\ lastOp'.flag
          /\ suggestions' = UserSearch(issued[lastOp'.col])]_vars
  /\ [][lastOp'.name = "close" =>
          /\ timers' = timers
          /\ inflight' = inflight]_vars

\* the modal was closed with a request in flight and its response arrived
C29_Witness ==
  /\ ModalClosed
  /\ lastOp.name = "searchResponse"
  /\ suggestions # <<>>
  /\ suggestions = UserSearch(issued[lastOp.col])

\* ------------------------------------------------------------------------
\* C30: in SelectionManager one notification invokes every subscriber that
\* was registered when the mutating call began exactly once, also when a
\* callback unsubscribes itself during the notification.
\* ------------------------------------------------------------------------
Registrations(subs, callback) ==
  Cardinality({i \in DOMAIN subs : subs[i] = callback})
Invocations(calls, callback) ==
  Cardinality({i \in DOMAIN calls : calls[i].cb = callback})

C30_SelectionNotifyReentrant ==
  [][SelectionNotifying(lastOp') =>
       \A callback \in Range(selSubscribers) \cup Names(invoked') :
         Invocations(invoked', callback) =
           Registrations(selSubscribers, callback)]_vars

====
